---- MODULE Spec2Model ----
(***************************************************************************)
(* py-spy command line driver (src/src/main.rs): argument dispatch, the    *)
(* dump / flame / console sampling modes, launch mode with its child       *)
(* process, and the exit code computed by main.                            *)
(***************************************************************************)
EXTENDS Integers, Sequences, FiniteSets, TLC

(* ------------------------------------------------------------------ *)
(* Bounds of the model                                                  *)
(* ------------------------------------------------------------------ *)
\* get_stack_traces failures of a live target within one sample_flame run
MaxFaults == 1
\* history counters of streaks saturate here
MaxTrack == 7
\* the count of get_stack_traces calls saturates here outside sample_flame
MaxCallsTracked == 2
\* longest list of traces / of frames handed to print_traces
MaxTraces == 2
MaxFrames == 2
\* longest cause chain handed to process_exitted / permission_denied on its own
MaxChain == 2

(* ------------------------------------------------------------------ *)
(* Program constants                                                    *)
(* ------------------------------------------------------------------ *)
rate == 10
max_samples == 2000
refresh_ms == 1000
console_exit_limit == 5
flame_exit_limit == 3
retry_attempts == 3
\* a panic ends the process with 101 (unwinding) or by SIGABRT, 134 (panic = "abort")
panic_exit_codes == { 101, 134 }

(* ------------------------------------------------------------------ *)
(* Values                                                               *)
(* ------------------------------------------------------------------ *)
None == << >>
Some(x) == << x >>

\* one cause of a failure::Error chain; code is io::Error::raw_os_error()
IoCause(code, kind) == [io |-> TRUE, code |-> code, kind |-> kind]
Context == [io |-> FALSE, code |-> None, kind |-> "NotIo"]
ESRCH == IoCause(Some(3), "Other")
EPARTIAL == IoCause(Some(299), "Other")
EACCES == IoCause(Some(13), "PermissionDenied")
EIO == IoCause(Some(5), "Other")
ETIMEDOUT == IoCause(Some(60), "TimedOut")
EPERM == IoCause(Some(1), "PermissionDenied")
\* io::Error::new(kind, ..): an io::Error without an OS error code
CustomIo(kind) == IoCause(None, kind)
\* a cause of another type that carries an OS error code of its own
Foreign == [io |-> FALSE, code |-> Some(3), kind |-> "PermissionDenied"]

\* failures of the engine seen while attaching and sampling: the target is gone,
\* access is refused, anything else
EngineErrors == { << Context, ESRCH >>, << EPARTIAL >>, << Context, EACCES >>, << EIO >> }

\* failures of the collaborators other than the engine
SpawnErrors == { << EACCES >>, << EIO >> }
FileErrors == { << EACCES >>, << EIO >> }
WriteErrors == { << EIO >> }
ViewerErrors == { << Context >> }
WaitErrors == { << EIO >> }

\* Result<_, Error>; `from` names the call that produced the error
Ok == [ok |-> TRUE, err |-> << >>, from |-> "none"]
Err(e, from) == [ok |-> FALSE, err |-> e, from |-> from]

\* only the error itself is looked at, not its causes
process_exitted_first_cause(err) ==
    /\ err[1].io
    /\ err[1].code # None
    /\ err[1].code[1] \in {3, 60, 299}

\* src/src/main.rs:53 process_exitted
process_exitted(err) ==
    \E i \in 1..Len(err) :
        /\ err[i].io
        /\ err[i].code # None
        /\ err[i].code[1] \in {3, 60, 299}

\* src/src/main.rs:66 permission_denied
permission_denied(err) ==
    \E i \in 1..Len(err) :
        IF err[i].io THEN err[i].kind = "PermissionDenied" ELSE FALSE

(* ------------------------------------------------------------------ *)
(* print_traces                                                         *)
(* ------------------------------------------------------------------ *)
HexDigit(d) == << "0", "1", "2", "3", "4", "5", "6", "7", "8", "9", "A", "B", "C", "D", "E", "F" >>[d + 1]

RECURSIVE UpperHex(_)
UpperHex(n) == IF n < 16 THEN << HexDigit(n) >> ELSE UpperHex(n \div 16) \o << HexDigit(n % 16) >>

status_str(trace) == IF trace.active THEN "active" ELSE "idle"

\* println!("Thread {:#X} ({})", trace.thread_id, trace.status_str())
HeaderLine(trace) == << "Thread ", "0x" >> \o UpperHex(trace.thread_id) \o << " (", status_str(trace), ")" >>

DecDigit(d) == << "0", "1", "2", "3", "4", "5", "6", "7", "8", "9" >>[d + 1]

RECURSIVE Decimal(_)
Decimal(n) == IF n < 10 THEN << DecDigit(n) >> ELSE Decimal(n \div 10) \o << DecDigit(n % 10) >>

\* the frame line with the full filename whatever short_filename holds
FrameLine_full_filename(frame) ==
    << "\t ", frame.name, " (", frame.filename, ":" >> \o Decimal(frame.line) \o << ")" >>

\* println!("\t {} ({}:{})", frame.name, filename, frame.line)
FrameLine(frame) ==
    LET filename == IF frame.short_filename # None THEN frame.short_filename[1] ELSE frame.filename
    IN  << "\t ", frame.name, " (", filename, ":" >> \o Decimal(frame.line) \o << ")" >>

RECURSIVE FrameLines(_, _)
FrameLines(frames, j) ==
    IF j > Len(frames) THEN << >>
    ELSE << FrameLine(frames[j]) >> \o FrameLines(frames, j + 1)

RECURSIVE PrintFrom(_, _, _)
PrintFrom(traces, show_idle, i) ==
    IF i > Len(traces) THEN << >>
    ELSE IF ~show_idle /\ ~traces[i].active THEN PrintFrom(traces, show_idle, i + 1)
    ELSE << HeaderLine(traces[i]) >> \o FrameLines(traces[i].frames, 1)
             \o PrintFrom(traces, show_idle, i + 1)

print_traces(traces, show_idle) == PrintFrom(traces, show_idle, 1)

SeqsUpTo(S, n) == UNION { [1..k -> S] : k \in 0..n }

FrameInputs ==
    { [name |-> "f", filename |-> "/lib/a.py", short_filename |-> Some("a.py"), line |-> 7],
      [name |-> "g", filename |-> "/lib/b.py", short_filename |-> None, line |-> 12] }

TraceInputs ==
    { [thread_id |-> IF a THEN 4660 ELSE 10, active |-> a, frames |-> fs] :
        a \in BOOLEAN, fs \in SeqsUpTo(FrameInputs, MaxFrames) }

SnapshotInputs == SeqsUpTo(TraceInputs, MaxTraces)

(* ------------------------------------------------------------------ *)
(* Command lines                                                        *)
(* ------------------------------------------------------------------ *)
Cmd(pid, dump, flame, prog) == [pid |-> pid, dump |-> dump, flame |-> flame, prog |-> prog]

\* pid: "none" (no --pid), "valid" (parses as u32), "invalid" (does not)
CommandLines ==
    { Cmd("valid", FALSE, FALSE, FALSE), Cmd("valid", TRUE, FALSE, FALSE),
      Cmd("valid", FALSE, TRUE, FALSE), Cmd("valid", TRUE, TRUE, FALSE),
      Cmd("valid", FALSE, FALSE, TRUE), Cmd("invalid", FALSE, FALSE, FALSE),
      Cmd("none", FALSE, FALSE, TRUE), Cmd("none", FALSE, TRUE, TRUE),
      Cmd("none", TRUE, FALSE, TRUE), Cmd("none", FALSE, FALSE, FALSE) }

VARIABLES
    args,            \* the parsed command line
    pc,              \* position of the main thread
    gone,            \* the target process has exited
    spawned,         \* number of children spawned
    engine,          \* result of PythonSpy::retry_new, None before it is called
    result,          \* launch mode: local `result` of pyspy_main
    ret,             \* value returned by pyspy_main
    exit_code,       \* process exit code, -1 while running
    hint,            \* the "Permission Denied" hint was printed
    ended,           \* "process {} ended" was printed
    snapshot,        \* traces handed to print_traces
    show_idle,       \* show_idle argument of print_traces
    stdout,          \* lines printed by print_traces
    iter,            \* sample_flame: iterations of the for loop started
    samples,         \* sample_flame: samples
    errors,          \* sample_flame: errors
    bar,             \* sample_flame: progress bar position
    exitted_count,   \* sample_flame / sample_console: exitted_count
    elapsed,         \* sample_console: elapsed
    report,          \* <<samples, errors>> of the "Wrote flame graph" line, None before
    file_writes,     \* number of flame.write calls on the created file
    reader,          \* stderr reader thread: "none", "running", "done"
    stderr_echoed,   \* the child's stderr was echoed by eprintln!
    kill_calls,      \* number of command.kill() calls
    faults,          \* get_stack_traces failures of the live target in sample_flame
    verdict,         \* what process_exitted and permission_denied returned, None before
    hist             \* history of get_stack_traces / retry_new calls

vars == << args, pc, gone, spawned, engine, result, ret, exit_code, hint, ended,
           snapshot, show_idle, stdout, iter, samples, errors, bar, exitted_count,
           elapsed, report, file_writes, reader, stderr_echoed, kill_calls, faults,
           verdict, hist >>

locals == << iter, samples, errors, bar, exitted_count, elapsed >>
printer == << snapshot, show_idle, stdout >>
child == << spawned, reader, stderr_echoed, kill_calls >>

Bump(n, cap) == IF n < cap THEN n + 1 ELSE n

hist0 ==
    [ calls |-> 0,            \* get_stack_traces calls made
      retry_calls |-> 0,      \* PythonSpy::retry_new calls made
      attempts |-> 0,         \* attempts argument of the last retry_new call
      perm_seen |-> FALSE,    \* an engine operation failed with permission denied
      after_perm |-> FALSE,   \* get_stack_traces was called after such a failure
      streak |-> 0,           \* process-exited errors since the last successful sample
      gone_calls |-> 0,       \* get_stack_traces calls made after the target exited
      unslept |-> 0,          \* get_stack_traces calls since the sampler last slept
      target |-> "none",      \* whose pid retry_new is given: "pid" (--pid), "child"
      modes |-> {},           \* sampling modes entered: "dump", "flame", "console"
      outcome |-> "none",     \* sample_console: kind of the last get_stack_traces outcome
      handled |-> "none",     \* sample_console: what the loop did with it
      ok_calls |-> 0,         \* sample_flame: get_stack_traces calls that returned Ok
      inc_failed |-> FALSE,   \* sample_flame: a flame.increment call failed
      sleeps |-> 0,           \* sample_console: sleeps since console.display was called
      refresh |-> FALSE,      \* sample_console: console.should_refresh() of this iteration
      displayed |-> FALSE ]   \* sample_console: console.display was called in this iteration

\* history after one get_stack_traces call with outcome o; calls saturate at cap
Observe(o, cap) ==
    [ hist EXCEPT
        !.calls = Bump(@, cap),
        !.perm_seen = @ \/ (~o.ok /\ permission_denied(o.err)),
        !.after_perm = @ \/ hist.perm_seen,
        !.streak = IF o.ok THEN 0
                   ELSE IF process_exitted(o.err) THEN Bump(@, MaxTrack) ELSE @,
        !.gone_calls = IF gone THEN Bump(@, MaxTrack) ELSE @,
        !.unslept = Bump(@, 2) ]

\* the sampling function returns: the streak and the sleeps observed in its
\* loop are dropped with its locals
Leave(h) ==
    [ h EXCEPT !.streak = 0, !.unslept = 0, !.outcome = "none", !.handled = "none",
               !.ok_calls = 0, !.sleeps = 0 ]

\* sample_console reached its refresh check: should_refresh() returned
\* refresh, and console.display was called or not
Checked(h, refresh, display) ==
    [ h EXCEPT !.refresh = refresh,
               !.displayed = display,
               !.sleeps = IF display THEN 0 ELSE @ ]

\* sample_flame got o from get_stack_traces
Sampled(h, o) == [ h EXCEPT !.ok_calls = IF o.ok THEN @ + 1 ELSE @ ]

\* sample_flame called flame.increment, which returned inc
Incremented(h, inc) == [ h EXCEPT !.inc_failed = @ \/ ~inc.ok ]

\* sample_flame returns having printed its report: the counts stay with it
Reported(h) == [ Leave(h) EXCEPT !.ok_calls = h.ok_calls ]

\* kind of a get_stack_traces outcome
KindOf(o) ==
    IF o.ok THEN "ok"
    ELSE IF process_exitted(o.err) THEN "exitted"
    ELSE IF permission_denied(o.err) THEN "perm"
    ELSE "other"

\* sample_console has o in hand and makes the call named by `call`
Handle(h, o, call) == [ h EXCEPT !.outcome = KindOf(o), !.handled = call ]

\* the sampling mode is entered
Enter(h, mode) == [ h EXCEPT !.modes = @ \cup { mode } ]

\* PythonSpy::get_stack_traces as seen by the caller: a dead target only
\* yields process-exited errors
GetStackTraces ==
    IF gone THEN { Err(e, "get_stack_traces") : e \in { x \in EngineErrors : process_exitted(x) } }
    ELSE { Ok } \cup { Err(e, "get_stack_traces") : e \in EngineErrors }

\* PythonSpy::retry_new as seen by the caller
RetryNew ==
    IF gone THEN { Err(e, "retry_new") : e \in { x \in EngineErrors : process_exitted(x) } }
    ELSE { Ok } \cup { Err(e, "retry_new") : e \in EngineErrors }

Init ==
    /\ args \in CommandLines
    /\ pc = "start"
    /\ gone = FALSE
    /\ spawned = 0
    /\ engine = None
    /\ result = Ok
    /\ ret = Ok
    /\ exit_code = -1
    /\ hint = FALSE
    /\ ended = FALSE
    /\ snapshot = << >>
    /\ show_idle = FALSE
    /\ stdout = << >>
    /\ iter = 0
    /\ samples = 0
    /\ errors = 0
    /\ bar = 0
    /\ exitted_count = 0
    /\ elapsed = 0
    /\ report = None
    /\ file_writes = 0
    /\ reader = "none"
    /\ stderr_echoed = FALSE
    /\ kill_calls = 0
    /\ faults = 0
    /\ verdict = None
    /\ hist = hist0

(* ------------------------------------------------------------------ *)
(* pyspy_main: argument dispatch and engine construction                *)
(* ------------------------------------------------------------------ *)
LocalsReset ==
    /\ iter' = 0
    /\ samples' = 0
    /\ errors' = 0
    /\ bar' = 0
    /\ exitted_count' = 0
    /\ elapsed' = 0

\* a sampling function returns r to pyspy_main: `?` / fall through to Ok(()) in
\* pid mode (lines 188-196, 256), the local `result` in launch mode (line 213)
Return(r) ==
    IF args.pid # "none"
    THEN pc' = "main" /\ ret' = r /\ UNCHANGED result
    ELSE pc' = "try_wait" /\ result' = r /\ UNCHANGED ret

\* --flame looked at before --dump
SamplingMode_flame_first ==
    IF args.flame THEN "flame_loop"
    ELSE IF args.pid # "none" /\ args.dump THEN "dump"
    ELSE "console_new"

\* which sampling mode runs once the engine exists (lines 187-195, 215-219)
SamplingMode ==
    IF args.pid # "none" /\ args.dump THEN "dump"
    ELSE IF args.flame THEN "flame_loop"
    ELSE "console_new"

\* clap rejects a command line with neither --pid nor a program (line 166, 181)
GetMatchesFails ==
    /\ pc = "start"
    /\ args.pid = "none" /\ ~args.prog
    /\ pc' = "exited"
    /\ exit_code' = 1
    /\ UNCHANGED << verdict, faults, args, gone, engine, result, ret, hint, ended, printer, locals,
                    report, file_writes, child, hist >>

\* line 183-184: --pid is present; parse().expect("invalid pid") panics on a bad value
ParsePid ==
    /\ pc = "start"
    /\ args.pid # "none"
    /\ IF args.pid = "invalid"
       THEN pc' = "exited" /\ exit_code' \in panic_exit_codes /\ UNCHANGED hist
       ELSE /\ pc' = "retry_new"
            /\ hist' = [ hist EXCEPT !.target = "pid" ]
            /\ UNCHANGED exit_code
    /\ UNCHANGED << verdict, faults, args, gone, engine, result, ret, hint, ended, printer, locals,
                    report, file_writes, child >>

\* lines 199-206: no --pid, a program is given: spawn it
Spawn ==
    /\ pc = "start"
    /\ args.pid = "none" /\ args.prog
    /\ \E s \in { Ok } \cup { Err(e, "spawn") : e \in SpawnErrors } :
          IF s.ok
          THEN /\ pc' = "retry_new"
               /\ spawned' = spawned + 1
               /\ hist' = [ hist EXCEPT !.target = "child" ]
               /\ UNCHANGED ret
          ELSE pc' = "main" /\ ret' = s /\ UNCHANGED << spawned, hist >>
    /\ UNCHANGED << verdict, faults, args, gone, engine, result, exit_code, hint, ended, printer, locals,
                    report, file_writes, reader, stderr_echoed, kill_calls >>

\* lines 185 and 213: PythonSpy::retry_new(pid, 3)
RetryNewCall ==
    /\ pc = "retry_new"
    /\ \E o \in RetryNew :
          /\ engine' = Some(o)
          /\ hist' = [ hist EXCEPT !.retry_calls = Bump(@, MaxTrack),
                                   !.attempts = retry_attempts,
                                   !.perm_seen = @ \/ (~o.ok /\ permission_denied(o.err)) ]
          /\ IF o.ok
             THEN pc' = SamplingMode /\ UNCHANGED << ret, result >>
             ELSE Return(o)
    /\ UNCHANGED << verdict, faults, args, gone, exit_code, hint, ended, printer, locals,
                    report, file_writes, child >>

\* line 188: print_traces(&process.get_stack_traces()?, true)
Dump ==
    /\ pc = "dump"
    /\ \E o \in GetStackTraces :
          /\ hist' = Enter(Observe(o, MaxCallsTracked), "dump")
          /\ ret' = o
          /\ IF o.ok
             THEN \E traces \in SnapshotInputs :
                     /\ snapshot' = traces
                     /\ show_idle' = TRUE
                     /\ stdout' = print_traces(traces, TRUE)
             ELSE UNCHANGED printer
    /\ pc' = "main"
    /\ UNCHANGED << verdict, faults, args, gone, engine, result, exit_code, hint, ended, locals,
                    report, file_writes, child >>

(* ------------------------------------------------------------------ *)
(* sample_flame                                                         *)
(* ------------------------------------------------------------------ *)
\* the range 0..=max_samples
InRange_inclusive(i) == i <= max_samples

\* line 122: for _ in 0..max_samples, i iterations having been started
InRange(i) == i < max_samples

\* the break is taken one process-exited error later
FlameBreak_late(count) == count > flame_exit_limit + 1

\* line 132: if exitted_count > 3
FlameBreak(count) == count > flame_exit_limit

\* the result of flame.increment is dropped
IncrementReturns_never(inc) == FALSE

\* line 125: flame.increment(&traces)? returns from sample_flame on Err
IncrementReturns(inc) == ~inc.ok

\* lines 122-141: one iteration of the for loop
FlameIter ==
    /\ pc = "flame_loop"
    /\ InRange(iter)
    /\ \E o \in GetStackTraces, inc \in { Ok } \cup { Err(e, "flame.increment") : e \in ViewerErrors } :
          /\ (~o.ok /\ ~gone) => faults < MaxFaults
          /\ faults' = IF o.ok /\ IncrementReturns(inc) THEN 0
                        ELSE IF ~o.ok /\ ~gone THEN faults + 1 ELSE faults
          /\ hist' = Enter(IF ~o.ok THEN Sampled(Observe(o, max_samples + 1), o)
                            ELSE IF IncrementReturns(inc)
                            THEN Incremented(Leave(Observe(o, max_samples + 1)), inc)
                            ELSE Incremented(Sampled(Observe(o, max_samples + 1), o), inc),
                            "flame")
          /\ IF o.ok
             THEN IF ~IncrementReturns(inc)
                  THEN /\ samples' = samples + 1
                       /\ bar' = bar + 1
                       /\ iter' = iter + 1
                       /\ pc' = IF InRange(iter + 1) THEN "flame_loop" ELSE "flame_write"
                       /\ UNCHANGED << errors, exitted_count, elapsed, ended, ret, result >>
                  ELSE /\ LocalsReset
                       /\ Return(inc)
                       /\ UNCHANGED ended
             ELSE IF process_exitted(o.err) /\ FlameBreak(exitted_count + 1)
                  THEN /\ exitted_count' = exitted_count + 1
                       /\ ended' = TRUE
                       /\ iter' = iter + 1
                       /\ pc' = "flame_write"
                       /\ UNCHANGED << samples, errors, bar, elapsed, ret, result >>
                  ELSE /\ exitted_count' = IF process_exitted(o.err) THEN exitted_count + 1
                                           ELSE exitted_count
                       /\ errors' = errors + 1
                       /\ bar' = bar + 1
                       /\ iter' = iter + 1
                       /\ pc' = IF InRange(iter + 1) THEN "flame_loop" ELSE "flame_write"
                       /\ UNCHANGED << samples, elapsed, ended, ret, result >>
    /\ UNCHANGED << verdict, args, gone, engine, exit_code, hint, printer, report, file_writes, child >>

\* lines 142-154: write the flame graph and report
FlameWrite ==
    /\ pc = "flame_write"
    /\ \E created \in { Ok } \cup { Err(e, "File::create") : e \in FileErrors },
          written \in { Ok } \cup { Err(e, "flame.write") : e \in WriteErrors } :
          IF ~created.ok
          THEN Return(created) /\ hist' = Leave(hist) /\ UNCHANGED << report, file_writes >>
          ELSE /\ file_writes' = file_writes + 1
               /\ Return(written)
               /\ report' = IF written.ok THEN Some(<< samples, errors >>) ELSE report
               /\ hist' = IF written.ok THEN Reported(hist) ELSE Leave(hist)
    /\ LocalsReset
    /\ faults' = 0
    /\ UNCHANGED << verdict, args, gone, engine, exit_code, hint, ended, printer, child >>

(* ------------------------------------------------------------------ *)
(* sample_console                                                       *)
(* ------------------------------------------------------------------ *)
\* the break is taken one process-exited error later
ConsoleBreak_late(count) == count > console_exit_limit + 1

\* line 92: if exitted_count > 5
ConsoleBreak(count) == count > console_exit_limit

\* every error is counted as the target having exited
ConsoleCounts_any_error(o) == ~o.ok

\* lines 89-91: Err(err) with process_exitted(&err)
ConsoleCounts(o) == ~o.ok /\ process_exitted(o.err)

\* line 80: ConsoleViewer::new(...)?
ConsoleNew ==
    /\ pc = "console_new"
    /\ \E c \in { Ok } \cup { Err(e, "ConsoleViewer::new") : e \in ViewerErrors } :
          IF c.ok
          THEN pc' = "console_loop" /\ UNCHANGED << ret, result >>
          ELSE Return(c)
    /\ hist' = Enter(hist, "console")
    /\ UNCHANGED << verdict, faults, args, gone, engine, exit_code, hint, ended, printer, locals,
                    report, file_writes, child >>

\* the display is refreshed only when more than 1000 ms have accumulated
NeedsRefresh_late(should_refresh, e) == should_refresh \/ e > refresh_ms

\* line 101: if console.should_refresh() || elapsed >= 1000
NeedsRefresh(should_refresh, e) == should_refresh \/ e >= refresh_ms

\* lines 85-104: sample, classify the outcome, refresh the display
ConsoleSample ==
    /\ pc = "console_loop"
    /\ \E o \in GetStackTraces, should_refresh \in BOOLEAN,
          displayed \in { Ok } \cup { Err(e, "console.display") : e \in ViewerErrors } :
          LET exitted == ConsoleCounts(o)
              count == IF exitted THEN exitted_count + 1 ELSE exitted_count
              call == IF o.ok THEN "increment"
                      ELSE IF exitted THEN "counted" ELSE "increment_error"
              seen == Handle(Observe(o, MaxCallsTracked), o, call)
          IN  IF exitted /\ ConsoleBreak(count)
              THEN /\ hist' = seen
                   /\ exitted_count' = count
                   /\ ended' = TRUE
                   /\ pc' = "console_ret"
                   /\ UNCHANGED << iter, samples, errors, bar, elapsed, ret, result >>
              ELSE IF NeedsRefresh(should_refresh, elapsed)
              THEN IF displayed.ok
                   THEN /\ hist' = Checked(seen, should_refresh, TRUE)
                        /\ elapsed' = 0
                        /\ exitted_count' = count
                        /\ pc' = "console_sleep"
                        /\ UNCHANGED << iter, samples, errors, bar, ended, ret, result >>
                   ELSE /\ hist' = Leave(Checked(seen, should_refresh, TRUE))
                        /\ LocalsReset
                        /\ Return(displayed)
                        /\ UNCHANGED ended
              ELSE /\ hist' = Checked(seen, should_refresh, FALSE)
                   /\ exitted_count' = count
                   /\ pc' = "console_sleep"
                   /\ UNCHANGED << iter, samples, errors, bar, elapsed, ended, ret, result >>
    /\ UNCHANGED << verdict, faults, args, gone, engine, exit_code, hint, printer, report, file_writes, child >>

\* line 108: Ok(()) after the loop was left by break
ConsoleRet ==
    /\ pc = "console_ret"
    /\ LocalsReset
    /\ hist' = Leave(hist)
    /\ Return(Ok)
    /\ UNCHANGED << verdict, faults, args, gone, engine, exit_code, hint, ended, printer, report,
                    file_writes, child >>

\* lines 105-106: sleep one sampling interval
ConsoleSleep ==
    /\ pc = "console_sleep"
    /\ elapsed' = elapsed + rate
    /\ hist' = [ hist EXCEPT !.unslept = 0, !.sleeps = @ + 1, !.refresh = FALSE,
                             !.displayed = FALSE, !.outcome = "none", !.handled = "none" ]
    /\ pc' = "console_loop"
    /\ UNCHANGED << verdict, faults, args, gone, engine, result, ret, exit_code, hint, ended, printer,
                    iter, samples, errors, bar, exitted_count, report, file_writes, child >>

(* ------------------------------------------------------------------ *)
(* launch mode: the child after sampling                                *)
(* ------------------------------------------------------------------ *)
TryOk(exit) == [ok |-> TRUE, err |-> << >>, exit |-> exit]
TryErr(e) == [ok |-> FALSE, err |-> e, exit |-> "none"]

\* command.try_wait(): the exit status once the child has exited
TryWaitOutcomes ==
    { TryErr(e) : e \in WaitErrors }
        \cup (IF gone THEN { TryOk("success"), TryOk("failure") } ELSE { TryOk("none") })

\* lines 225-246: check the child's exit status, start the stderr reader
TryWait ==
    /\ pc = "try_wait"
    /\ \E w \in TryWaitOutcomes :
          IF ~w.ok
          THEN pc' = "main" /\ ret' = Err(w.err, "try_wait") /\ UNCHANGED reader
          ELSE LET success == w.exit # "failure"
               IN  /\ pc' = "kill"
                   /\ reader' = IF ~success \/ ~result.ok THEN "running" ELSE reader
                   /\ UNCHANGED ret
    /\ UNCHANGED << verdict, faults, args, gone, spawned, engine, result, exit_code, hint, ended, printer,
                    locals, report, file_writes, stderr_echoed, kill_calls, hist >>

\* lines 238-243: the thread reading the child's stderr to its end
StderrReader ==
    /\ reader = "running"
    /\ gone
    /\ pc # "exited"
    /\ reader' = "done"
    /\ \E read_ok \in BOOLEAN : stderr_echoed' = read_ok
    /\ UNCHANGED << verdict, faults, args, pc, gone, spawned, engine, result, ret, exit_code, hint, ended,
                    printer, locals, report, file_writes, kill_calls, hist >>

\* lines 249-253: command.kill(); return result
Kill ==
    /\ pc = "kill"
    /\ kill_calls' = kill_calls + 1
    /\ gone' = TRUE
    /\ ret' = result
    /\ pc' = "main"
    /\ UNCHANGED << verdict, faults, args, spawned, engine, result, exit_code, hint, ended, printer, locals,
                    report, file_writes, reader, stderr_echoed, hist >>

(* ------------------------------------------------------------------ *)
(* main                                                                 *)
(* ------------------------------------------------------------------ *)
\* lines 269-283
MainRet ==
    /\ pc = "main"
    /\ pc' = "exited"
    /\ IF ret.ok
       THEN exit_code' = 0 /\ UNCHANGED hint
       ELSE exit_code' = 1 /\ hint' = permission_denied(ret.err)
    /\ UNCHANGED << verdict, faults, args, gone, engine, result, ret, ended, printer, locals,
                    report, file_writes, child, hist >>

\* the target process exits on its own
TargetExit ==
    /\ ~gone
    /\ pc \in { "retry_new", "dump", "flame_loop", "flame_write", "console_new",
                "console_loop", "console_sleep", "console_ret", "try_wait", "kill" }
    /\ gone' = TRUE
    /\ UNCHANGED << verdict, faults, args, pc, engine, result, ret, exit_code, hint, ended, printer, locals,
                    report, file_writes, child, hist >>

Next ==
    \/ GetMatchesFails
    \/ ParsePid
    \/ Spawn
    \/ RetryNewCall
    \/ Dump
    \/ FlameIter
    \/ FlameWrite
    \/ ConsoleNew
    \/ ConsoleSample
    \/ ConsoleSleep
    \/ ConsoleRet
    \/ TryWait
    \/ StderrReader
    \/ Kill
    \/ MainRet
    \/ TargetExit

Spec == Init /\ [][Next]_vars

(* ------------------------------------------------------------------ *)
(* print_traces on its own and on the dump path                         *)
(* ------------------------------------------------------------------ *)
\* print_traces(traces, show_idle) called with the traces in snapshot
PrintTraces ==
    /\ pc = "print_traces"
    /\ stdout' = print_traces(snapshot, show_idle)
    /\ pc' = "printed"
    /\ UNCHANGED << verdict, faults, args, gone, engine, result, ret, exit_code, hint, ended, snapshot,
                    show_idle, locals, report, file_writes, child, hist >>

\* either a call of print_traces on any input, or --pid P --dump with the
\* engine constructed (the state RetryNewCall leaves)
InitPrint ==
    /\ args = Cmd("valid", TRUE, FALSE, FALSE)
    /\ \/ /\ pc = "print_traces"
          /\ snapshot \in SnapshotInputs
          /\ show_idle \in BOOLEAN
       \/ /\ pc = "dump"
          /\ snapshot = << >>
          /\ show_idle = FALSE
    /\ engine = Some(Ok)
    /\ hist = [ hist0 EXCEPT !.retry_calls = 1, !.attempts = retry_attempts, !.target = "pid" ]
    /\ gone = FALSE
    /\ spawned = 0
    /\ result = Ok
    /\ ret = Ok
    /\ exit_code = -1
    /\ hint = FALSE
    /\ ended = FALSE
    /\ stdout = << >>
    /\ iter = 0
    /\ samples = 0
    /\ errors = 0
    /\ bar = 0
    /\ exitted_count = 0
    /\ elapsed = 0
    /\ report = None
    /\ file_writes = 0
    /\ reader = "none"
    /\ stderr_echoed = FALSE
    /\ kill_calls = 0
    /\ faults = 0
    /\ verdict = None

NextPrint ==
    \/ PrintTraces
    \/ Dump

SpecPrint == InitPrint /\ [][NextPrint]_vars

(* ------------------------------------------------------------------ *)
(* process_exitted and permission_denied on their own                   *)
(* ------------------------------------------------------------------ *)
CauseInputs ==
    { Context, Foreign, ESRCH, ETIMEDOUT, EPARTIAL, EACCES, EPERM, EIO,
      CustomIo("PermissionDenied"), CustomIo("Other") }

\* err.causes(): the error itself followed by its causes
ErrorInputs == SeqsUpTo(CauseInputs, MaxChain) \ { << >> }

\* process_exitted(&err) and permission_denied(&err) called on the error in ret
Classify ==
    /\ pc = "classify"
    /\ verdict' = Some([exitted |-> process_exitted(ret.err),
                        denied |-> permission_denied(ret.err)])
    /\ pc' = "classified"
    /\ UNCHANGED << faults, args, gone, engine, result, ret, exit_code, hint, ended, printer,
                    locals, report, file_writes, child, hist >>

InitClassify ==
    /\ args = Cmd("valid", FALSE, FALSE, FALSE)
    /\ pc = "classify"
    /\ ret \in { Err(e, "get_stack_traces") : e \in ErrorInputs }
    /\ verdict = None
    /\ engine = Some(Ok)
    /\ hist = [ hist0 EXCEPT !.retry_calls = 1, !.attempts = retry_attempts, !.target = "pid" ]
    /\ gone = FALSE
    /\ spawned = 0
    /\ result = Ok
    /\ exit_code = -1
    /\ hint = FALSE
    /\ ended = FALSE
    /\ snapshot = << >>
    /\ show_idle = FALSE
    /\ stdout = << >>
    /\ iter = 0
    /\ samples = 0
    /\ errors = 0
    /\ bar = 0
    /\ exitted_count = 0
    /\ elapsed = 0
    /\ report = None
    /\ file_writes = 0
    /\ reader = "none"
    /\ stderr_echoed = FALSE
    /\ kill_calls = 0
    /\ faults = 0

NextClassify == Classify

SpecClassify == InitClassify /\ [][NextClassify]_vars

(* ------------------------------------------------------------------ *)
(* Properties                                                           *)
(* ------------------------------------------------------------------ *)
ConsoleMode == SamplingMode = "console_new"
FlameMode == SamplingMode = "flame_loop"
LaunchMode == args.pid = "none" /\ args.prog

\* C1: a sampling loop prints "process ended" and is left only after N
\* process-exited errors in a row (6 in sample_console, 4 in sample_flame), a
\* successful sample in between restarting the count.
C1_EndedAfterErrorsInARow ==
    /\ (pc = "console_ret" /\ ended) => hist.streak >= 6
    /\ (pc = "flame_write" /\ ended) => hist.streak >= 4

\* C2: after an engine operation failed with permission denied no further
\* get_stack_traces call is made, and the program (here: attached with --pid)
\* exits with code 1 having printed the "Permission Denied" hint.
C2_PermissionDeniedAborts ==
    /\ ~hist.after_perm
    /\ (pc = "exited" /\ hist.perm_seen /\ ~LaunchMode) => (exit_code = 1 /\ hint)

\* C3: sample_flame terminates: its loop makes at most 2000 get_stack_traces
\* calls, one per iteration of a loop that can always take its next iteration,
\* and at most 2000 samples are aggregated and reported.
C3_FlameBounded ==
    FlameMode =>
        /\ hist.calls <= 2000
        /\ samples <= 2000
        /\ samples + errors <= hist.calls
        /\ (pc = "flame_loop" => (hist.calls = iter /\ iter < 2000 /\ ENABLED FlameIter))
        /\ (pc = "flame_write" => hist.calls = iter)
        /\ (report # None => report[1][1] <= 2000)

C3_Witness ==
    /\ pc = "flame_write"
    /\ hist.calls = 2000
    /\ samples = 2000

\* C4: with --dump the program takes exactly one snapshot: one
\* get_stack_traces call once the engine is constructed, and it never enters
\* the flame or console sampling loop.
C4_DumpTakesOneSnapshot ==
    args.dump =>
        /\ pc \notin { "flame_loop", "flame_write", "console_new", "console_loop",
                       "console_sleep", "console_ret" }
        /\ hist.calls <= 1
        /\ (pc = "exited" /\ engine = Some(Ok)) => hist.calls = 1

\* C5: the exit code is 0 when the run completed cleanly and 1 on every
\* error, an invalid --pid value included.
C5_ExitCodeZeroOrOne ==
    pc = "exited" =>
        /\ exit_code \in { 0, 1 }
        /\ (args.pid = "invalid" \/ ~ret.ok) => exit_code = 1
        /\ (args.pid # "invalid" /\ (args.pid # "none" \/ args.prog) /\ ret.ok) => exit_code = 0

\* C6: in launch mode, once the child was spawned, kill has been invoked on it
\* by the time pyspy_main is left.
C6_ChildKilledOnEveryPath ==
    (pc \in { "main", "exited" } /\ spawned > 0) => kill_calls > 0

\* C7: retry_new is called once, with attempts = 3; get_stack_traces is only
\* called after it returned Ok; when it fails no sampling mode runs and its
\* error is what pyspy_main returns, in launch mode after the child was killed.
C7_ConstructionGatesSampling ==
    /\ hist.retry_calls <= 1
    /\ (hist.retry_calls = 1) = (engine # None)
    /\ hist.retry_calls = 1 => hist.attempts = 3
    /\ hist.calls > 0 => engine = Some(Ok)
    /\ (engine # None /\ engine # Some(Ok)) =>
          /\ pc \in { "try_wait", "kill", "main", "exited" }
          /\ hist.calls = 0
          /\ pc \in { "main", "exited" } =>
                (ret = engine[1] /\ (spawned > 0 => kill_calls > 0))

\* C8: between two consecutive get_stack_traces calls of a sampling loop the
\* sampler sleeps: no two calls are made without a sleep in between.
C8_SleepBetweenSamples == hist.unslept <= 1

Printed(traces, idle, i) == idle \/ traces[i].active

\* the number a string of digits denotes in the given base
RECURSIVE DigitsValue(_, _)
DigitsValue(digits, base) ==
    IF digits = << >> THEN 0
    ELSE LET last == digits[Len(digits)]
             d == CHOOSE v \in 0..15 :
                     << "0", "1", "2", "3", "4", "5", "6", "7", "8", "9",
                        "A", "B", "C", "D", "E", "F" >>[v + 1] = last
         IN  DigitsValue(SubSeq(digits, 1, Len(digits) - 1), base) * base + d

RECURSIVE LinesBefore(_, _, _)
LinesBefore(traces, idle, i) ==
    IF i <= 1 THEN 0
    ELSE LinesBefore(traces, idle, i - 1)
            + (IF Printed(traces, idle, i - 1) THEN 1 + Len(traces[i - 1].frames) ELSE 0)

\* C9: print_traces prints, for each trace in input order, a header line with
\* the thread id and active/idle followed by one line per frame in frame order,
\* with short_filename when present and filename otherwise; a trace is left out
\* exactly when show_idle is false and it is not active; the dump path passes
\* show_idle = true, so every returned trace is printed.
C9_PrintTracesFormat ==
    (pc = "printed" \/ (pc = "main" /\ args.dump /\ ret.ok)) =>
        /\ Len(stdout) = LinesBefore(snapshot, show_idle, Len(snapshot) + 1)
        /\ \A i \in 1..Len(snapshot) :
              Printed(snapshot, show_idle, i) =>
                 LET base == LinesBefore(snapshot, show_idle, i)
                     trace == snapshot[i]
                     header == stdout[base + 1]
                 IN  /\ header[1] = "Thread "
                     /\ header[2] = "0x"
                     /\ DigitsValue(SubSeq(header, 3, Len(header) - 3), 16) = trace.thread_id
                     /\ header[Len(header) - 1] = (IF trace.active THEN "active" ELSE "idle")
                     /\ \A k \in 1..Len(trace.frames) :
                           LET line == stdout[base + 1 + k]
                               frame == trace.frames[k]
                           IN  /\ line[1] = "\t "
                               /\ line[2] = frame.name
                               /\ line[4] = (IF frame.short_filename = None
                                             THEN frame.filename
                                             ELSE frame.short_filename[1])
                               /\ DigitsValue(SubSeq(line, 6, Len(line) - 1), 10) = frame.line
        /\ pc = "main" =>
              /\ show_idle
              /\ Cardinality({ j \in 1..Len(stdout) : stdout[j][1] = "Thread " }) = Len(snapshot)

C9_Witness ==
    /\ pc = "printed"
    /\ ~show_idle
    /\ Len(snapshot) = 2
    /\ ~snapshot[1].active
    /\ snapshot[2].active
    /\ Len(snapshot[2].frames) = 2
    /\ snapshot[2].frames[1].short_filename = None
    /\ snapshot[2].frames[2].short_filename # None
    /\ Len(stdout) = 3

ConsoleLeft ==
    /\ pc \in { "console_loop", "console_ret" }
    /\ pc' \notin { "console_loop", "console_sleep", "console_ret" }

C11_TargetSelection ==
    /\ args.pid # "none" =>
          /\ spawned = 0
          /\ engine # None => hist.target = "pid"
          /\ Cardinality(hist.modes) <= 1
          /\ (engine = Some(Ok) /\ pc \in { "main", "exited" }) =>
                hist.modes = { IF args.dump THEN "dump"
                               ELSE IF args.flame THEN "flame" ELSE "console" }
          /\ engine # Some(Ok) => hist.modes = {}
    /\ LaunchMode =>
          /\ spawned <= 1
          /\ engine # None => (spawned = 1 /\ hist.target = "child")
          /\ (pc # "start" /\ spawned = 0) => (ret.from = "spawn" /\ engine = None)

C11_Witness ==
    /\ args = Cmd("valid", FALSE, FALSE, TRUE)
    /\ pc = "exited"
    /\ engine = Some(Ok)
    /\ hist.modes = { "console" }
    /\ hist.target = "pid"
    /\ spawned = 0

\* C12: in launch mode, when attaching or sampling returned an error or the
\* child was seen to have exited unsuccessfully, the child's stderr has been
\* echoed by the time the program exits, and the main thread never waits for
\* the reader thread: it can always go on to kill the child and return.
C12_StderrDumpedBeforeExit ==
    /\ (LaunchMode /\ pc = "exited" /\ kill_calls > 0 /\ (~result.ok \/ reader # "none")) =>
          stderr_echoed
    /\ pc = "kill" => ENABLED Kill
    /\ (pc = "main" /\ kill_calls > 0) => ENABLED MainRet

\* a step by which sample_console returns
ConsoleEnds ==
    /\ pc \in { "console_new", "console_loop", "console_ret" }
    /\ pc' \notin { "console_new", "console_loop", "console_sleep", "console_ret" }

\* C13: sample_console returns only Ok, after a process-exited error made its
\* exitted_count exceed 5, or the Err of ConsoleViewer::new or console.display;
\* a successful sample goes to console.increment and any error that is not a
\* process-exited error (a permission-denied one included) goes to
\* console.increment_error, and neither leaves the loop: the iteration goes on
\* to the sleep and to the next get_stack_traces call.
C13_ConsoleEndsTwoWays ==
    /\ [][ConsoleEnds =>
             LET r == IF LaunchMode THEN result' ELSE ret'
             IN  IF r.ok
                 THEN pc = "console_ret" /\ exitted_count > 5 /\ hist.outcome = "exitted"
                 ELSE r.from \in { "ConsoleViewer::new", "console.display" }]_vars
    /\ [][(pc = "console_loop" /\ pc' = "console_ret") =>
             (hist'.outcome = "exitted" /\ exitted_count' > 5)]_vars
    /\ [][(pc = "console_loop" /\ pc' # pc /\ hist'.outcome \in { "ok", "perm", "other" }) =>
             pc' = "console_sleep"]_vars
    /\ [](hist.handled = "increment" <=> hist.outcome = "ok")
    /\ [](hist.handled = "increment_error" <=> hist.outcome \in { "perm", "other" })
    /\ [](hist.handled = "counted" <=> hist.outcome = "exitted")
    /\ [](pc = "console_sleep" => ENABLED ConsoleSleep)
    /\ [](pc = "console_loop" => ENABLED ConsoleSample)
    /\ [][pc = "console_sleep" => pc' \in { "console_sleep", "console_loop" }]_vars

C13_Witness ==
    /\ pc = "console_sleep"
    /\ hist.outcome = "perm"
    /\ hist.handled = "increment_error"
    /\ exitted_count = 5
    /\ hist.calls > 0

\* C14: in sample_flame samples is the number of get_stack_traces calls that
\* returned Ok and the progress bar stands at samples + errors <= 2000; when
\* the loop ran all its iterations without break, 2000 calls were made and
\* samples + errors is that number; when the loop was left by break, on the
\* 4th process-exited error, samples + errors is the number of calls minus
\* one; the report "Samples: S Errors: E" carries these values.
C14_FlameAccounting ==
    /\ (FlameMode /\ pc \in { "flame_loop", "flame_write" }) =>
          /\ samples = hist.ok_calls
          /\ bar = samples + errors
          /\ samples + errors <= 2000
    /\ (pc = "flame_write" /\ ended) =>
          (samples + errors = hist.calls - 1 /\ exitted_count = 4)
    /\ (pc = "flame_write" /\ ~ended) =>
          (hist.calls = 2000 /\ samples + errors = hist.calls)
    /\ report # None =>
          LET S == report[1][1]
              E == report[1][2]
          IN  /\ S = hist.ok_calls
              /\ S + E <= 2000
              /\ ended => S + E = hist.calls - 1
              /\ ~ended => (hist.calls = 2000 /\ S + E = hist.calls)

C14_Witness ==
    /\ report # None
    /\ ended
    /\ report[1][1] > 0
    /\ report[1][2] = 4
    /\ hist.calls = report[1][1] + 5

\* sample_flame has returned, with FlameResult
FlameReturned ==
    /\ FlameMode
    /\ engine = Some(Ok)
    /\ pc \in (IF LaunchMode THEN { "try_wait", "kill", "main", "exited" }
                ELSE { "main", "exited" })

FlameResult == IF LaunchMode THEN result ELSE ret

ConsoleIteration == pc = "console_loop" /\ pc' = "console_sleep"

\* an iteration of sample_console in which console.display fails
ConsoleDisplayFails ==
    /\ pc = "console_loop"
    /\ pc' \notin { "console_loop", "console_sleep", "console_ret" }

\* C16: an iteration of sample_console that reaches the refresh check calls
\* console.display exactly when should_refresh() holds or the sleeps since the
\* last display add up to at least 1000 ms; a display that returns resets
\* elapsed to 0, an iteration without one leaves it alone; elapsed is the
\* sleep accumulated since the last display, a multiple of 10 in 0..1000; every
\* completed iteration sleeps once, so at most 100 iterations in a row
\* complete without a display call.
C16_ConsoleRefreshBounded ==
    /\ [](elapsed % 10 = 0 /\ elapsed >= 0 /\ elapsed <= 1000)
    /\ [](pc \in { "console_loop", "console_sleep", "console_ret" } =>
             elapsed = 10 * hist.sleeps)
    /\ [](hist.sleeps <= 100)
    /\ [][ConsoleIteration =>
             /\ hist'.displayed <=> (hist'.refresh \/ 10 * hist.sleeps >= 1000)
             /\ hist'.displayed => (elapsed' = 0 /\ hist'.sleeps = 0)
             /\ ~hist'.displayed => (elapsed' = elapsed /\ hist'.sleeps = hist.sleeps)]_vars
    /\ [][ConsoleDisplayFails =>
             (hist'.displayed /\ (hist'.refresh \/ 10 * hist.sleeps >= 1000))]_vars
    /\ [][(pc = "console_sleep" /\ pc' = "console_loop") =>
             (hist'.sleeps = hist.sleeps + 1 /\ elapsed' = elapsed + 10)]_vars
    /\ [][pc = "console_sleep" => pc' \in { "console_sleep", "console_loop" }]_vars
    /\ [](pc = "console_sleep" => ENABLED ConsoleSleep)

C16_Witness ==
    /\ pc = "console_sleep"
    /\ hist.displayed
    /\ ~hist.refresh
    /\ elapsed = 0
    /\ hist.calls > 0

\* C17: in launch mode, once the child was spawned, pyspy_main returns the
\* result of retry_new followed by sampling whatever the child's exit status
\* is, so the exit code is 0 whenever that result is Ok.
C17_ReturnsSamplingResult ==
    (LaunchMode /\ spawned > 0 /\ pc \in { "main", "exited" }) =>
        /\ ret = result
        /\ (pc = "exited" /\ result.ok) => exit_code = 0

\* C18: process_exitted(err) holds exactly when some cause of err, at any
\* depth, is an io::Error with raw OS error code 3, 60 or 299;
\* permission_denied(err) holds exactly when some cause is an io::Error of
\* kind PermissionDenied; with no io::Error among the causes both are false.
C18_WholeChainClassified ==
    pc = "classified" =>
        LET causes == { ret.err[i] : i \in DOMAIN ret.err }
            io_errors == { c \in causes : c.io }
        IN  /\ verdict[1].exitted <=>
                  (\E c \in io_errors : c.code \in { Some(3), Some(60), Some(299) })
            /\ verdict[1].denied <=> (\E c \in io_errors : c.kind = "PermissionDenied")
            /\ io_errors = {} => (~verdict[1].exitted /\ ~verdict[1].denied)

C18_Witness ==
    /\ pc = "classified"
    /\ ret.err = << Foreign, ETIMEDOUT >>
    /\ verdict = Some([exitted |-> TRUE, denied |-> FALSE])

====
